---- MODULE Spec2Model ----
(***************************************************************************)
(* Model of src/main.py, the YouTube stream updater: for every record of   *)
(* every config file, fetch the playlist, validate it, save it, and on     *)
(* failure remove the previously saved file; then print a summary and      *)
(* exit.  The program is sequential: one action per load_config call, one  *)
(* per iteration of the record loop of main(), one for the summary.        *)
(***************************************************************************)
EXTENDS Integers, Sequences, FiniteSets, TLC

\* ------------------------------------------------------------------ bounds
\* Config file arguments on the command line, and records in all of them together.
MaxConfigFiles == 2
MaxRecords == 2

\* ------------------------------------------------------------- constants
\* The default of --retries; main stores the argument and nothing reads it.
MAX_RETRIES == 3

\* Python's None for an error kind; an optional value is <<>> or <<v>>.
None == "None"
Nothing == <<>>
Some(v) == <<v>>
FOLDER_NAME == "streams"
ENDPOINT == "https://your-endpoint.com"

\* ---------------------------------------------------------------- inputs
\* The literal marker looked for by fetch_stream_url, one character per element.
Marker == <<"#", "E", "X", "T", "M", "3", "U">>

\* A playlist (the marker inside other text), a body with the marker cut short,
\* and the empty body.
Playlist == <<"x">> \o Marker \o <<"\n">>
Bodies == { Playlist, <<"#", "E", "X", "T", "M", "3">>, <<>> }

OldContent == <<"o", "l", "d">>

\* What one GET can do: an HTTP response, or a transport-level failure.
Responses ==
  [kind : {"response"}, status : {200}, body : Bodies]
    \cup [kind : {"response"}, status : {404}, body : {<<>>}]
    \cup [kind : {"response"}, status : {500}, body : {Playlist}]
    \cup [kind : {"Timeout", "ConnectionError"}, status : {0}, body : {<<>>}]

\* Records a config file can hold: same slug in the root and in a subfolder.
Streams ==
  { [id |-> "id1", slug |-> "chan", subfolder |-> ""],
    [id |-> "id2", slug |-> "chan", subfolder |-> "sub"] }

SeqsUpTo(S, n) == UNION { [1..k -> S] : k \in 0..n }

\* What load_config can find at a path: no file, no JSON, or a list of at most
\* n records.
ConfigFileStates(n) ==
  [state : {"missing", "invalid"}, records : {<<>>}]
    \cup [state : {"ok"}, records : SeqsUpTo(Streams, n)]

\* What the file system can do to save_stream: nothing, or an exception from
\* mkdir, from open, or from write.
SaveOutcomes == {"ok", "mkdir_raises", "open_raises", "write_raises"}

\* What the file system can do to unlink.
UnlinkOutcomes == {"ok", "raise"}

RootDir == <<FOLDER_NAME>>
SubDir == <<FOLDER_NAME, "sub">>
Dirs == {RootDir, SubDir}
Paths == { [dir |-> d, name |-> "chan"] : d \in Dirs }

VARIABLES
  n_config_files, \* len(args.config_files)
  session_type,   \* module-level session_type set by create_session at import
  fail_on_error,  \* args.fail_on_error
  files,          \* file system: path -> Some(content), or Nothing
  dirs,           \* file system: existing directories
  cfg_idx,        \* position of main's outer loop in args.config_files
  streams,        \* the list returned by load_config for the current file
  i,              \* position of main's inner loop in streams
  total_success,
  total_fail,
  error_summary,
  pc,             \* "load", "loop", "done", "config_exit", "crashed"
  exit_code,      \* -1 while running
  n_loaded,       \* history: records of the config files loaded so far
  n_done,         \* history: records whose loop iteration ran to its end
  last_load,      \* history: what the latest load_config found at the path
  last            \* history: what the latest loop iteration did

vars ==
  << n_config_files, session_type, fail_on_error, files, dirs, cfg_idx, streams, i,
     total_success, total_fail, error_summary, pc, exit_code, n_loaded, n_done,
     last_load, last >>

ErrorKinds == {"InvalidContent", "Timeout", "RequestError", "SaveError"}

\* ------------------------------------------------------------- functions
\* create_session: the first available library wins.
create_session(CLOUDSCRAPER_AVAILABLE, CURL_CFFI_AVAILABLE) ==
  IF CLOUDSCRAPER_AVAILABLE THEN "cloudscraper"
  ELSE IF CURL_CFFI_AVAILABLE THEN "curl_cffi"
  ELSE "requests"

\* Mutant of load_config: a file that cannot be read counts as an empty list.
load_config_swallows_error(config_file) ==
  [exit |-> FALSE, config |-> config_file.records]

\* load_config: the parsed list, or sys.exit(1) when the file is missing or not JSON.
load_config(config_file) ==
  IF config_file.state = "ok"
  THEN [exit |-> FALSE, config |-> config_file.records]
  ELSE [exit |-> TRUE, config |-> <<>>]

\* make_request: one GET, through curl_cffi or through the session (requests or
\* cloudscraper, a requests.Session).  The response, and any exception it or the
\* GET raises, belongs to the library that made the request.
make_request(resp, stype) ==
  [lib |-> IF stype = "curl_cffi" THEN "curl_cffi" ELSE "requests",
   exc |-> IF resp.kind = "response" THEN None ELSE resp.kind,
   status |-> resp.status,
   text |-> resp.body]

\* response.raise_for_status(): HTTPError for a 4xx or 5xx status.
raise_for_status(response) ==
  IF response.status >= 400 /\ response.status < 600 THEN "HTTPError" ELSE None

\* Python's `sub in s` on strings.
Contains(sub, s) ==
  \E k \in 0..(Len(s) - Len(sub)) : SubSeq(s, k + 1, k + Len(sub)) = sub

\* Truthiness of an optional string: None and the empty string are false.
Truthy(opt) == opt /= Nothing /\ opt[1] /= <<>>

\* Mutant of fetch_stream_url: the marker test is left out.
fetch_stream_url_unvalidated(stream, resp, stype) ==
  LET url == <<ENDPOINT, "?ID=", stream.id>>
      response == make_request(resp, stype)
      exc == IF response.exc /= None THEN response.exc ELSE raise_for_status(response)
  IN  IF exc = None
      THEN [raised |-> FALSE, content |-> Some(response.text), error_type |-> None,
            gets |-> 1, url |-> url]
      ELSE IF response.lib /= "requests"
      THEN [raised |-> TRUE, content |-> Nothing, error_type |-> None, gets |-> 1,
            url |-> url]
      ELSE IF exc = "Timeout"
      THEN [raised |-> FALSE, content |-> Nothing, error_type |-> "Timeout",
            gets |-> 1, url |-> url]
      ELSE [raised |-> FALSE, content |-> Nothing, error_type |-> "RequestError",
            gets |-> 1, url |-> url]

\* Mutant of fetch_stream_url: the Timeout handler returns no error kind.
fetch_stream_url_timeout_unnamed(stream, resp, stype) ==
  LET url == <<ENDPOINT, "?ID=", stream.id>>
      response == make_request(resp, stype)
      exc == IF response.exc /= None THEN response.exc ELSE raise_for_status(response)
  IN  IF exc = None
      THEN IF Contains(Marker, response.text)
           THEN [raised |-> FALSE, content |-> Some(response.text), error_type |-> None,
                 gets |-> 1, url |-> url]
           ELSE [raised |-> FALSE, content |-> Nothing, error_type |-> "InvalidContent",
                 gets |-> 1, url |-> url]
      ELSE IF response.lib /= "requests"
      THEN [raised |-> TRUE, content |-> Nothing, error_type |-> None, gets |-> 1,
            url |-> url]
      ELSE IF exc = "Timeout"
      THEN [raised |-> FALSE, content |-> Nothing, error_type |-> None,
            gets |-> 1, url |-> url]
      ELSE [raised |-> FALSE, content |-> Nothing, error_type |-> "RequestError",
            gets |-> 1, url |-> url]

\* fetch_stream_url: a single GET, then the marker test.  The except clauses
\* name requests.exceptions.Timeout and requests.exceptions.RequestException
\* only: an exception of another library leaves the function.
fetch_stream_url(stream, resp, stype) ==
  LET url == <<ENDPOINT, "?ID=", stream.id>>
      response == make_request(resp, stype)
      exc == IF response.exc /= None THEN response.exc ELSE raise_for_status(response)
  IN  IF exc = None
      THEN IF Contains(Marker, response.text)
           THEN [raised |-> FALSE, content |-> Some(response.text), error_type |-> None,
                 gets |-> 1, url |-> url]
           ELSE [raised |-> FALSE, content |-> Nothing, error_type |-> "InvalidContent",
                 gets |-> 1, url |-> url]
      ELSE IF response.lib /= "requests"
      THEN [raised |-> TRUE, content |-> Nothing, error_type |-> None, gets |-> 1,
            url |-> url]
      ELSE IF exc = "Timeout"
      THEN [raised |-> FALSE, content |-> Nothing, error_type |-> "Timeout",
            gets |-> 1, url |-> url]
      ELSE [raised |-> FALSE, content |-> Nothing, error_type |-> "RequestError",
            gets |-> 1, url |-> url]

\* The directory and the file a record is stored at.
output_dir(stream) ==
  IF stream.subfolder /= "" THEN <<FOLDER_NAME, stream.subfolder>> ELSE <<FOLDER_NAME>>

output_file(stream) == [dir |-> output_dir(stream), name |-> stream.slug]

\* A directory and all its parents.
WithParents(d) == { SubSeq(d, 1, k) : k \in 1..Len(d) }

\* f.write on a file opened in text mode 'w': every "\n" becomes os.linesep,
\* which is "\n" itself on the POSIX systems the script runs on.
RECURSIVE text_write(_)
text_write(s) ==
  IF s = <<>> THEN <<>>
  ELSE (IF Head(s) = "\n" THEN <<"\n">> ELSE <<Head(s)>>) \o text_write(Tail(s))

\* Mutant of save_stream: the file is written into the output folder itself,
\* whatever the record's subfolder.
save_stream_ignores_subfolder(stream, m3u8_content, fs, wr) ==
  LET dir == output_dir(stream)
      file == [dir |-> <<FOLDER_NAME>>, name |-> stream.slug]
  IN  IF dir \notin fs.dirs /\ wr = "mkdir_raises"
      THEN [raised |-> TRUE, ret |-> FALSE, fs |-> fs]
      ELSE LET made == fs.dirs \cup WithParents(dir)
           IN  CASE wr \in {"ok", "mkdir_raises"} ->
                      [raised |-> FALSE, ret |-> TRUE,
                       fs |-> [files |-> [fs.files EXCEPT
                                            ![file] = Some(text_write(m3u8_content))],
                               dirs |-> made]]
                 [] wr = "open_raises" ->
                      [raised |-> FALSE, ret |-> FALSE,
                       fs |-> [files |-> fs.files, dirs |-> made]]
                 [] wr = "write_raises" ->
                      [raised |-> FALSE, ret |-> FALSE,
                       fs |-> [files |-> [fs.files EXCEPT ![file] = Some(<<>>)],
                               dirs |-> made]]

\* save_stream: mkdir runs before the try block, so its exception is not caught
\* (exist_ok: it cannot raise for a directory that is there); open(..., 'w')
\* truncates, so a write that fails leaves an empty file.
save_stream(stream, m3u8_content, fs, wr) ==
  LET dir == output_dir(stream)
      file == output_file(stream)
  IN  IF dir \notin fs.dirs /\ wr = "mkdir_raises"
      THEN [raised |-> TRUE, ret |-> FALSE, fs |-> fs]
      ELSE LET made == fs.dirs \cup WithParents(dir)
           IN  CASE wr \in {"ok", "mkdir_raises"} ->
                      [raised |-> FALSE, ret |-> TRUE,
                       fs |-> [files |-> [fs.files EXCEPT
                                            ![file] = Some(text_write(m3u8_content))],
                               dirs |-> made]]
                 [] wr = "open_raises" ->
                      [raised |-> FALSE, ret |-> FALSE,
                       fs |-> [files |-> fs.files, dirs |-> made]]
                 [] wr = "write_raises" ->
                      [raised |-> FALSE, ret |-> FALSE,
                       fs |-> [files |-> [fs.files EXCEPT ![file] = Some(<<>>)],
                               dirs |-> made]]

\* Mutant of delete_old_file: the path is built without the record's subfolder.
delete_old_file_ignores_subfolder(stream, fs, ul) ==
  LET file == [dir |-> <<FOLDER_NAME>>, name |-> stream.slug]
  IN  IF fs.files[file] /= Nothing
      THEN IF ul = "ok"
           THEN [ret |-> TRUE, unlink |-> ul, fs |-> [fs EXCEPT !.files[file] = Nothing]]
           ELSE [ret |-> FALSE, unlink |-> ul, fs |-> fs]
      ELSE [ret |-> FALSE, unlink |-> "none", fs |-> fs]

\* delete_old_file: unlink the file when it exists; an exception is logged only.
\* `unlink` tells what the unlink call did, "none" when it was not made.
delete_old_file(stream, fs, ul) ==
  LET file == output_file(stream)
  IN  IF fs.files[file] /= Nothing
      THEN IF ul = "ok"
           THEN [ret |-> TRUE, unlink |-> ul, fs |-> [fs EXCEPT !.files[file] = Nothing]]
           ELSE [ret |-> FALSE, unlink |-> ul, fs |-> fs]
      ELSE [ret |-> FALSE, unlink |-> "none", fs |-> fs]

\* error_summary[kind] = error_summary.get(kind, 0) + 1
bump(summary, kind) == [summary EXCEPT ![kind] = @ + 1]

\* Mutant of tally: a failed save is recorded as SaveError but not counted.
tally_save_uncounted(ts, tf, es, m3u8_content, saved, error_type) ==
  IF Truthy(m3u8_content)
  THEN IF saved
       THEN [total_success |-> ts + 1, total_fail |-> tf, error_summary |-> es]
       ELSE [total_success |-> ts, total_fail |-> tf,
             error_summary |-> bump(es, "SaveError")]
  ELSE [total_success |-> ts, total_fail |-> tf + 1,
        error_summary |-> IF error_type /= None THEN bump(es, error_type) ELSE es]

\* The counting of one iteration of main's record loop (lines 215-226).
tally(ts, tf, es, m3u8_content, saved, error_type) ==
  IF Truthy(m3u8_content)
  THEN IF saved
       THEN [total_success |-> ts + 1, total_fail |-> tf, error_summary |-> es]
       ELSE [total_success |-> ts, total_fail |-> tf + 1,
             error_summary |-> bump(es, "SaveError")]
  ELSE [total_success |-> ts, total_fail |-> tf + 1,
        error_summary |-> IF error_type /= None THEN bump(es, error_type) ELSE es]

\* ------------------------------------------------------------------ state
\* `last` before any record was processed.
NoLast ==
  [outcome |-> "none", target |-> [dir |-> RootDir, name |-> "chan"], existed |-> FALSE,
   resp |-> [kind |-> "response", status |-> 200, body |-> <<>>], gets |-> 0,
   error_type |-> None, save_called |-> FALSE, save_ret |-> FALSE,
   delete_called |-> FALSE, wr |-> "none", ul |-> "none",
   counted |-> "none", kinds |-> {}, wrote |-> FALSE]

Init ==
  /\ n_config_files \in 1..MaxConfigFiles
  /\ fail_on_error \in BOOLEAN
  /\ \E cs \in BOOLEAN, cc \in BOOLEAN : session_type = create_session(cs, cc)
  /\ dirs \in {{}, {RootDir, SubDir}}
  /\ files \in [Paths -> {Nothing, Some(OldContent)}]
  /\ \A p \in Paths : files[p] /= Nothing => p.dir \in dirs
  /\ cfg_idx = 1
  /\ streams = <<>>
  /\ i = 1
  /\ total_success = 0
  /\ total_fail = 0
  /\ error_summary = [k \in ErrorKinds |-> 0]
  /\ pc = "load"
  /\ exit_code = -1
  /\ n_loaded = 0
  /\ n_done = 0
  /\ last_load = "none"
  /\ last = NoLast

\* main, line 210: load the next config file, or exit(1) from load_config.
LoadConfig ==
  /\ pc = "load"
  /\ cfg_idx <= n_config_files
  /\ \E config_file \in ConfigFileStates(MaxRecords - n_loaded) :
     LET r == load_config(config_file)
     IN  /\ last_load' = config_file.state
         /\ IF r.exit
            THEN /\ pc' = "config_exit"
                 /\ exit_code' = 1
                 /\ UNCHANGED << cfg_idx, streams, i, n_loaded >>
            ELSE /\ streams' = r.config
                 /\ i' = 1
                 /\ n_loaded' = n_loaded + Len(r.config)
                 /\ IF Len(r.config) = 0
                    THEN cfg_idx' = cfg_idx + 1 /\ pc' = "load"
                    ELSE cfg_idx' = cfg_idx /\ pc' = "loop"
                 /\ UNCHANGED exit_code
  /\ UNCHANGED << n_config_files, session_type, fail_on_error, files, dirs,
                  total_success, total_fail, error_summary, n_done, last >>

\* History only: which of the two counters a tally raised by one.
Counted(t) ==
  IF t.total_success = total_success + 1 /\ t.total_fail = total_fail THEN "success"
  ELSE IF t.total_success = total_success /\ t.total_fail = total_fail + 1 THEN "fail"
  ELSE "other"

\* The state after one iteration of the record loop that called fetch (f), then
\* save (s) when call_save, then delete (d) when call_delete.
Iteration(stream, resp, f, call_save, wr, s, call_delete, d) ==
  LET crashed == f.raised \/ s.raised
      t == tally(total_success, total_fail, error_summary, f.content, s.ret,
                 f.error_type)
  IN  /\ files' = d.fs.files
      /\ dirs' = d.fs.dirs
      /\ last' = [outcome |-> IF crashed THEN "raised"
                              ELSE IF call_save /\ s.ret THEN "success" ELSE "fail",
                  target |-> output_file(stream),
                  existed |-> files[output_file(stream)] /= Nothing,
                  resp |-> resp, gets |-> f.gets, error_type |-> f.error_type,
                  save_called |-> call_save, save_ret |-> s.ret,
                  delete_called |-> call_delete, wr |-> wr, ul |-> d.unlink,
                  counted |-> IF crashed THEN "none" ELSE Counted(t),
                  kinds |-> IF crashed THEN {}
                            ELSE { k \in ErrorKinds :
                                     t.error_summary[k] /= error_summary[k] },
                  wrote |-> \E p \in Paths :
                              d.fs.files[p] \notin {files[p], Nothing}]
      /\ IF crashed
         THEN /\ pc' = "crashed"
              /\ exit_code' = 1
              /\ UNCHANGED << total_success, total_fail, error_summary, n_done,
                              i, cfg_idx >>
         ELSE /\ total_success' = t.total_success
              /\ total_fail' = t.total_fail
              /\ error_summary' = t.error_summary
              /\ n_done' = n_done + 1
              /\ UNCHANGED exit_code
              /\ IF i < Len(streams)
                 THEN i' = i + 1 /\ pc' = "loop" /\ cfg_idx' = cfg_idx
                 ELSE i' = i /\ pc' = "load" /\ cfg_idx' = cfg_idx + 1

\* main, lines 211-226: one iteration of the record loop.  The network answers
\* the GET; the file system answers save_stream and delete_old_file when called.
ProcessRecord ==
  /\ pc = "loop"
  /\ \E resp \in Responses :
       LET stream == streams[i]
           fs0 == [files |-> files, dirs |-> dirs]
           f == fetch_stream_url(stream, resp, session_type)
           nosave == [raised |-> FALSE, ret |-> FALSE, fs |-> fs0]
           nodelete(fs) == [ret |-> FALSE, unlink |-> "none", fs |-> fs]
       IN  IF f.raised
           THEN Iteration(stream, resp, f, FALSE, "none", nosave, FALSE, nodelete(fs0))
           ELSE IF Truthy(f.content)
           THEN \E wr \in SaveOutcomes :
                  LET s == save_stream(stream, f.content[1], fs0, wr)
                  IN  IF s.raised \/ s.ret
                      THEN Iteration(stream, resp, f, TRUE, wr, s, FALSE, nodelete(s.fs))
                      ELSE \E ul \in UnlinkOutcomes :
                             Iteration(stream, resp, f, TRUE, wr, s, TRUE,
                                       delete_old_file(stream, s.fs, ul))
           ELSE \E ul \in UnlinkOutcomes :
                  Iteration(stream, resp, f, FALSE, "none", nosave, TRUE,
                            delete_old_file(stream, fs0, ul))
  /\ UNCHANGED << n_config_files, session_type, fail_on_error, streams, n_loaded,
                  last_load >>

\* main, lines 228-237: the summary and the exit status.
Finish ==
  /\ pc = "load"
  /\ cfg_idx > n_config_files
  /\ pc' = "done"
  /\ exit_code' = IF total_fail > 0 /\ fail_on_error THEN 1 ELSE 0
  /\ UNCHANGED << n_config_files, session_type, fail_on_error, files, dirs, cfg_idx,
                  streams, i, total_success, total_fail, error_summary, n_loaded,
                  n_done, last_load, last >>

Next == LoadConfig \/ ProcessRecord \/ Finish

Spec == Init /\ [][Next]_vars

\* ------------------------------------------------------------------ claims
Processed == last.outcome /= "none"
FailedRecord == last.outcome = "fail"
TransportFailure == last.resp.kind \in {"Timeout", "ConnectionError"}
Is2xx(resp) == resp.kind = "response" /\ resp.status >= 200 /\ resp.status < 300
LoadFailed == last_load \in {"missing", "invalid"}

RECURSIVE SumOver(_, _)
SumOver(f, S) ==
  IF S = {} THEN 0
  ELSE LET k == CHOOSE x \in S : TRUE IN f[k] + SumOver(f, S \ {k})

\* C1 as stated: after a record that failed (fetch returned an error kind, or
\* save returned failure) and whose target file existed before the record was
\* processed, the target path does not exist, whatever the unlink did.
C1_StaleFileAlwaysRemoved ==
  (FailedRecord /\ last.existed) => files[last.target] = Nothing

\* C1 as amended: after such a record delete_old_file was called and tried the
\* unlink; the target path is gone exactly when the unlink did not raise, and a
\* raising unlink leaves the file where it was.
C1_StaleFileRemovedUnlessUnlinkRaises ==
  (FailedRecord /\ last.existed) =>
    /\ last.delete_called
    /\ last.ul \in UnlinkOutcomes
    /\ (files[last.target] = Nothing <=> last.ul = "ok")

\* C1 witness: a save that failed over an existing file, which was then removed.
C1_Witness ==
  /\ FailedRecord /\ last.existed /\ last.save_called
  /\ last.ul = "ok" /\ files[last.target] = Nothing

\* C2: when the summary is reported, total_success + total_fail is the number
\* N of records of the loaded config files; at any time it is the number of
\* records processed so far (each record raised exactly one counter by one).
C2_CountsSumToN ==
  /\ total_success + total_fail = n_done
  /\ last.outcome \in {"success", "fail"} => last.counted = last.outcome
  /\ pc = "done" => total_success + total_fail = n_loaded

\* C2 witness: a summary over two records, one of them saved and one failed in
\* save_stream.
C2_Witness ==
  /\ pc = "done" /\ n_loaded = 2 /\ total_success = 1
  /\ error_summary["SaveError"] = 1

\* C3 as stated: no per-record failure aborts the batch, so the run never ends
\* in an uncaught exception.
C3_NeverAborts == pc /= "crashed"

C5_InvalidContentNeverWritten ==
  (/\ Processed
   /\ Is2xx(last.resp)
   /\ ~Contains(Marker, last.resp.body)) =>
    /\ last.outcome = "fail"
    /\ last.error_type = "InvalidContent"
    /\ ~last.save_called
    /\ ~last.wrote
    /\ files[last.target] = Nothing \/ (last.existed /\ last.ul = "raise")
    /\ last.counted = "fail"
    /\ last.kinds = {"InvalidContent"}

\* C5 witness: a body with the marker cut short, refused, the old file removed.
C5_Witness ==
  /\ Processed /\ Is2xx(last.resp) /\ last.resp.body /= <<>>
  /\ ~Contains(Marker, last.resp.body)
  /\ last.existed /\ files[last.target] = Nothing
  /\ error_summary["InvalidContent"] = 1

\* C6 as stated: a record whose first GET returned 404 is classified only after
\* exactly one more GET.
C6_Retries404Once ==
  (Processed /\ last.resp.kind = "response" /\ last.resp.status = 404) =>
    last.gets = 2

\* C7 as stated: a record whose GET failed at transport level is given up only
\* when the configured number of attempts was made.
C7_RetriesTransportFailure ==
  (Processed /\ TransportFailure) => last.gets >= MAX_RETRIES

\* C8 as stated: when a config file cannot be loaded, the run exits with code 1
\* and no record of any config file was fetched, saved or removed.
C8_LoadErrorBeforeAnyRecord ==
  LoadFailed =>
    /\ pc = "config_exit" /\ exit_code = 1
    /\ n_done = 0 /\ ~Processed

\* C8 as amended: when a config file cannot be loaded, the run exits at once
\* with code 1; the records processed are exactly those of the config files
\* listed before it, none of that file or of a later one.
C8_LoadErrorStopsRun ==
  LoadFailed =>
    /\ pc = "config_exit" /\ exit_code = 1
    /\ cfg_idx <= n_config_files
    /\ n_done = n_loaded
    /\ total_success + total_fail = n_loaded

\* C8 witness: the second config file is missing after the first one's records
\* were processed.
C8_Witness ==
  /\ pc = "config_exit" /\ last_load = "missing"
  /\ cfg_idx = 2 /\ n_done > 0

\* C9 as stated: in a run whose config files all loaded, the exit status is
\* non-zero exactly when fail_on_error is set and total_fail > 0.
C9_ExitStatus ==
  (pc = "done" \/ (pc = "crashed" /\ cfg_idx = n_config_files)) =>
    ((exit_code /= 0) <=> (fail_on_error /\ total_fail > 0))

\* C10: the values of error_summary add up to total_fail, and every failed
\* record was counted under exactly one kind, SaveError when save_stream failed
\* and the fetch's error kind otherwise.
C10_BreakdownSumsToFailures ==
  /\ SumOver(error_summary, ErrorKinds) = total_fail
  /\ FailedRecord =>
       last.kinds = {IF last.save_called THEN "SaveError" ELSE last.error_type}

\* C10 witness: two failures of different kinds, one of them a timeout.
C10_Witness ==
  /\ total_fail = 2
  /\ error_summary["Timeout"] = 1
  /\ error_summary["SaveError"] = 1

====
